---- MODULE Spec2Model ----
(***************************************************************************)
(* State-machine model of run_simulation() in dca_python.py: the monthly   *)
(* DCA engine (cash accrual, trigger-based buy, profit taking, rebalance,  *)
(* snapshot).  Python floats are modelled as exact rationals <<n, d>>      *)
(* (d > 0, lowest terms), so every identity below is an identity of the    *)
(* real-number algorithm; floating-point rounding is outside the model.    *)
(***************************************************************************)
EXTENDS Integers, Sequences, FiniteSets, TLC

(***************************************************************************)
(* Exact rational arithmetic standing for Python's float operators.        *)
(***************************************************************************)
Abs(x) == IF x < 0 THEN -x ELSE x

RECURSIVE GCD(_, _)
GCD(a, b) == IF b = 0 THEN a ELSE GCD(b, a % b)

Rat(n, d) ==
    LET g == GCD(Abs(n), d) IN <<n \div g, d \div g>>

R(n) == <<n, 1>>

Zero == <<0, 1>>

One == <<1, 1>>

RNeg(a) == <<-a[1], a[2]>>

RAdd(a, b) ==
    LET g == GCD(a[2], b[2])
        l == (a[2] \div g) * b[2]
    IN Rat(a[1] * (l \div a[2]) + b[1] * (l \div b[2]), l)

RSub(a, b) == RAdd(a, RNeg(b))

RMul(a, b) ==
    LET g1 == GCD(Abs(a[1]), b[2])
        g2 == GCD(Abs(b[1]), a[2])
    IN <<(a[1] \div g1) * (b[1] \div g2), (a[2] \div g2) * (b[2] \div g1)>>

\* 1 / b, for b # Zero
RInv(b) == IF b[1] > 0 THEN <<b[2], b[1]>> ELSE <<-b[2], -b[1]>>

\* a / b, for b # Zero (callers guard the divisor as Python would raise)
RDiv(a, b) == RMul(a, RInv(b))

RLe(a, b) == RSub(a, b)[1] <= 0

RLt(a, b) == RSub(a, b)[1] < 0

RMin(a, b) == IF RLe(a, b) THEN a ELSE b

RAbs(a) == <<Abs(a[1]), a[2]>>

(***************************************************************************)
(* Bounds and input sets.                                                  *)
(***************************************************************************)
MaxLen == 3

PriceValues == {1, 2, 4}

\* the two-period series of the documented trigger examples, and the
\* series whose decline equals the 5% threshold exactly
ExampleSeries == {<<100, 94>>, <<100, 95>>, <<100, 97>>}

PriceSeries ==
    UNION {[1..n -> PriceValues] : n \in 0..MaxLen} \cup ExampleSeries

CapitalValues == {-12, 0, 12}

YieldValues == {Zero, R(12)}

TriggerValues == {<<1, 20>>, <<1, 2>>, One}

MultValues == {2, 3}

PnlValues == {<<1, 2>>, One}

RatioValues == {Zero, <<1, 2>>, One}

(***************************************************************************)
(* State.                                                                  *)
(***************************************************************************)
VARIABLES
    prices,            \* the price list (module level)
    capital_inicial,   \* sidebar parameters (module level)
    cash_yield,
    trigger_caida,
    multiplicador,
    usa_profit_take,
    pnl_target,
    ratio_equity,
    monthly_base,      \* locals of run_simulation
    current_cash,
    shares,
    invested_basis,
    history,
    i,                 \* loop index (0-based, as enumerate gives it)
    monthly_ret,
    pc,                \* position inside run_simulation
    branch             \* which branch the last step took

vars == <<prices, capital_inicial, cash_yield, trigger_caida, multiplicador,
          usa_profit_take, pnl_target, ratio_equity, monthly_base,
          current_cash, shares, invested_basis, history, i, monthly_ret,
          pc, branch>>

inputs == <<prices, capital_inicial, cash_yield, trigger_caida,
            multiplicador, usa_profit_take, pnl_target, ratio_equity>>

\* price of the current iteration: prices[i] in Python
Price == R(prices[i + 1])

(***************************************************************************)
(* The steps of one loop iteration as pure operators on the portfolio      *)
(* [current_cash, shares, invested_basis]; ok = FALSE stands for a         *)
(* ZeroDivisionError raised by the step.                                   *)
(***************************************************************************)
Portfolio(c, s, b) ==
    [current_cash |-> c, shares |-> s, invested_basis |-> b, ok |-> TRUE]

Raised(pf) == [pf EXCEPT !.ok = FALSE]

\* mutant: the annual yield credited every month
AccrueCash_Annual(cash, yield) == RMul(cash, RAdd(One, yield))

\* line 52
AccrueCash(cash, yield) == RMul(cash, RAdd(One, RDiv(yield, R(12))))

\* line 55; ps is the price list, k the 0-based index; k > 0 => ps[k] # 0
MonthlyRet(ps, k) ==
    IF k > 0 THEN RDiv(RSub(R(ps[k + 1]), R(ps[k])), R(ps[k])) ELSE Zero

\* mutant: a decline equal to the threshold does not fire
TriggerActive_Strict(ret, trigger) == RLt(ret, RNeg(trigger))

\* lines 58 and 98
TriggerActive(ret, trigger) == RLe(ret, RNeg(trigger))

\* line 58
BuyAmount(base, mult, ret, trigger) ==
    IF TriggerActive(ret, trigger) THEN RMul(base, R(mult)) ELSE base

\* mutant: the buy is not capped at the cash available
DCABuy_Uncapped(pf, price, buy_amount) ==
    IF price = Zero THEN Raised(pf)
    ELSE Portfolio(RSub(pf.current_cash, buy_amount),
                   RAdd(pf.shares, RDiv(buy_amount, price)),
                   RAdd(pf.invested_basis, buy_amount))

\* lines 59-62
DCABuy(pf, price, buy_amount) ==
    LET actual_buy == RMin(buy_amount, pf.current_cash) IN
    IF price = Zero THEN Raised(pf)
    ELSE Portfolio(RSub(pf.current_cash, actual_buy),
                   RAdd(pf.shares, RDiv(actual_buy, price)),
                   RAdd(pf.invested_basis, actual_buy))

\* line 67 (the `and` short-circuits, so the division sees basis > 0)
ProfitCondition(pf, price, target) ==
    /\ RLt(Zero, pf.invested_basis)
    /\ RLt(target,
           RSub(RDiv(RMul(pf.shares, price), pf.invested_basis), One))

\* mutant: the proceeds of the sale are not credited to cash
ProfitSale_NoCredit(pf, price, target) ==
    LET equity_val == RMul(pf.shares, price)
        surplus == RSub(equity_val,
                        RMul(pf.invested_basis, RAdd(One, target)))
    IN
    IF price = Zero \/ pf.shares = Zero THEN Raised(pf)
    ELSE LET shares_sold == RDiv(surplus, price) IN
         Portfolio(pf.current_cash,
                   RSub(pf.shares, shares_sold),
                   RSub(pf.invested_basis,
                        RMul(shares_sold,
                             RDiv(pf.invested_basis, pf.shares))))

\* mutant: the basis is reduced by the proceeds, not by the cost sold
ProfitSale_BasisByProceeds(pf, price, target) ==
    LET equity_val == RMul(pf.shares, price)
        surplus == RSub(equity_val,
                        RMul(pf.invested_basis, RAdd(One, target)))
    IN
    IF price = Zero \/ pf.shares = Zero THEN Raised(pf)
    ELSE LET shares_sold == RDiv(surplus, price) IN
         Portfolio(RAdd(pf.current_cash, surplus),
                   RSub(pf.shares, shares_sold),
                   RSub(pf.invested_basis, surplus))

\* lines 68-72
ProfitSale(pf, price, target) ==
    LET equity_val == RMul(pf.shares, price)
        surplus == RSub(equity_val,
                        RMul(pf.invested_basis, RAdd(One, target)))
    IN
    IF price = Zero \/ pf.shares = Zero THEN Raised(pf)
    ELSE LET shares_sold == RDiv(surplus, price) IN
         Portfolio(RAdd(pf.current_cash, surplus),
                   RSub(pf.shares, shares_sold),
                   RSub(pf.invested_basis,
                        RMul(shares_sold,
                             RDiv(pf.invested_basis, pf.shares))))

\* lines 65-72
ProfitTake(pf, price, enabled, target) ==
    IF enabled /\ ProfitCondition(pf, price, target)
    THEN ProfitSale(pf, price, target)
    ELSE pf

\* mutant: the target is taken from the cash, not from the total value
Adjustment_FromCash(pf, price, ratio) ==
    LET equity_val == RMul(pf.shares, price)
        target_eq_val == RMul(pf.current_cash, ratio)
    IN RSub(target_eq_val, equity_val)

\* lines 75-78
Adjustment(pf, price, ratio) ==
    LET equity_val == RMul(pf.shares, price)
        total_val == RAdd(pf.current_cash, equity_val)
        target_eq_val == RMul(total_val, ratio)
    IN RSub(target_eq_val, equity_val)

\* lines 81-84
RebalanceBuy(pf, price, adj) ==
    LET v == RMin(adj, pf.current_cash) IN
    IF price = Zero THEN Raised(pf)
    ELSE Portfolio(RSub(pf.current_cash, v),
                   RAdd(pf.shares, RDiv(v, price)),
                   RAdd(pf.invested_basis, v))

\* line 88: the reduction of the basis, 0 unless shares > 0
BasisReduction(pf, shares_sold) ==
    IF RLt(Zero, pf.shares)
    THEN RMul(shares_sold, RDiv(pf.invested_basis, pf.shares))
    ELSE Zero

\* mutant: the basis reduction divides by shares without the shares > 0 test
RebalanceSell_Unguarded(pf, price, adj) ==
    LET v == RAbs(adj) IN
    IF price = Zero \/ pf.shares = Zero THEN Raised(pf)
    ELSE LET shares_sold == RDiv(v, price) IN
         Portfolio(RAdd(pf.current_cash, v),
                   RSub(pf.shares, shares_sold),
                   RSub(pf.invested_basis,
                        RMul(shares_sold,
                             RDiv(pf.invested_basis, pf.shares))))

\* lines 86-90
RebalanceSell(pf, price, adj) ==
    LET v == RAbs(adj) IN
    IF price = Zero THEN Raised(pf)
    ELSE LET shares_sold == RDiv(v, price) IN
         Portfolio(RAdd(pf.current_cash, v),
                   RSub(pf.shares, shares_sold),
                   RSub(pf.invested_basis, BasisReduction(pf, shares_sold)))

\* lines 74-90
Rebalance(pf, price, ratio) ==
    LET adj == Adjustment(pf, price, ratio) IN
    IF RLt(Zero, adj) THEN RebalanceBuy(pf, price, adj)
    ELSE RebalanceSell(pf, price, adj)

\* mutant: the total adds the share count, not the shares' value
Snapshot_TotalOfShares(k, p, pf, ret, trigger) ==
    [Fecha    |-> k,
     Precio   |-> p,
     Total    |-> RAdd(pf.current_cash, pf.shares),
     Efectivo |-> pf.current_cash,
     Acciones |-> RMul(pf.shares, R(p)),
     Trigger  |-> TriggerActive(ret, trigger)]

\* mutant: the snapshot is dated one month late
Snapshot_NextDate(k, p, pf, ret, trigger) ==
    [Fecha    |-> k + 1,
     Precio   |-> p,
     Total    |-> RAdd(pf.current_cash, RMul(pf.shares, R(p))),
     Efectivo |-> pf.current_cash,
     Acciones |-> RMul(pf.shares, R(p)),
     Trigger  |-> TriggerActive(ret, trigger)]

\* lines 92-99; the timestamp dates[k] is the k-th month end
Snapshot(k, p, pf, ret, trigger) ==
    [Fecha    |-> k,
     Precio   |-> p,
     Total    |-> RAdd(pf.current_cash, RMul(pf.shares, R(p))),
     Efectivo |-> pf.current_cash,
     Acciones |-> RMul(pf.shares, R(p)),
     Trigger  |-> TriggerActive(ret, trigger)]

(***************************************************************************)
(* The state machine.                                                      *)
(***************************************************************************)
Current == Portfolio(current_cash, shares, invested_basis)

Init ==
    /\ prices \in PriceSeries
    /\ capital_inicial \in CapitalValues
    /\ cash_yield \in YieldValues
    /\ trigger_caida \in TriggerValues
    /\ multiplicador \in MultValues
    /\ usa_profit_take \in BOOLEAN
    /\ pnl_target \in PnlValues
    /\ ratio_equity \in RatioValues
    /\ monthly_base = Zero
    /\ current_cash = Zero
    /\ shares = Zero
    /\ invested_basis = Zero
    /\ history = <<>>
    /\ i = 0
    /\ monthly_ret = Zero
    /\ pc = "start"
    /\ branch = "none"

\* the step leaves the portfolio as pf and goes to `next`, or raises
Store(pf, next, taken) ==
    /\ current_cash' = pf.current_cash
    /\ shares' = pf.shares
    /\ invested_basis' = pf.invested_basis
    /\ pc' = IF pf.ok THEN next ELSE "fault"
    /\ branch' = IF pf.ok THEN taken ELSE "raised"

\* lines 43-48; capital_inicial / num_months raises on an empty list
Start ==
    /\ pc = "start"
    /\ IF Len(prices) = 0
       THEN /\ pc' = "fault"
            /\ branch' = "raised"
            /\ UNCHANGED <<monthly_base, current_cash>>
       ELSE /\ pc' = "loop"
            /\ branch' = "started"
            /\ monthly_base' = RDiv(R(capital_inicial), R(Len(prices)))
            /\ current_cash' = R(capital_inicial)
    /\ shares' = Zero
    /\ invested_basis' = Zero
    /\ history' = <<>>
    /\ UNCHANGED <<inputs, i, monthly_ret>>

\* lines 50-55: next item of enumerate(prices), interest, monthly return
Accrue ==
    /\ pc = "loop"
    /\ i < Len(prices)
    /\ current_cash' = AccrueCash(current_cash, cash_yield)
    /\ monthly_ret' = MonthlyRet(prices, i)
    /\ pc' = "buy"
    /\ branch' = "accrued"
    /\ UNCHANGED <<inputs, monthly_base, shares, invested_basis, history, i>>

\* lines 58-62
Buy ==
    /\ pc = "buy"
    /\ Store(DCABuy(Current, Price,
                    BuyAmount(monthly_base, multiplicador, monthly_ret,
                              trigger_caida)),
             "profit", "dca_buy")
    /\ UNCHANGED <<inputs, monthly_base, history, i, monthly_ret>>

\* lines 65-72, the sale
TakeProfit ==
    /\ pc = "profit"
    /\ usa_profit_take
    /\ ProfitCondition(Current, Price, pnl_target)
    /\ Store(ProfitTake(Current, Price, usa_profit_take, pnl_target),
             "rebalance", "profit_sale")
    /\ UNCHANGED <<inputs, monthly_base, history, i, monthly_ret>>

\* lines 65-67, rule disabled or condition false
SkipProfit ==
    /\ pc = "profit"
    /\ ~(usa_profit_take /\ ProfitCondition(Current, Price, pnl_target))
    /\ Store(ProfitTake(Current, Price, usa_profit_take, pnl_target),
             "rebalance", "profit_skip")
    /\ UNCHANGED <<inputs, monthly_base, history, i, monthly_ret>>

\* lines 75-84
RebalanceUp ==
    /\ pc = "rebalance"
    /\ RLt(Zero, Adjustment(Current, Price, ratio_equity))
    /\ Store(Rebalance(Current, Price, ratio_equity), "emit", "rebalance_buy")
    /\ UNCHANGED <<inputs, monthly_base, history, i, monthly_ret>>

\* lines 75-78, 85-90
RebalanceDown ==
    /\ pc = "rebalance"
    /\ ~RLt(Zero, Adjustment(Current, Price, ratio_equity))
    /\ Store(Rebalance(Current, Price, ratio_equity), "emit", "rebalance_sell")
    /\ UNCHANGED <<inputs, monthly_base, history, i, monthly_ret>>

\* lines 92-99, and the loop's advance
Emit ==
    /\ pc = "emit"
    /\ history' = Append(history,
                         Snapshot(i, prices[i + 1], Current, monthly_ret,
                                  trigger_caida))
    /\ i' = i + 1
    /\ pc' = "loop"
    /\ branch' = "emitted"
    /\ UNCHANGED <<inputs, monthly_base, current_cash, shares,
                   invested_basis, monthly_ret>>

\* line 100: the list is exhausted
Return ==
    /\ pc = "loop"
    /\ i = Len(prices)
    /\ pc' = "done"
    /\ branch' = "returned"
    /\ UNCHANGED <<inputs, monthly_base, current_cash, shares,
                   invested_basis, history, i, monthly_ret>>

Next ==
    \/ Start
    \/ Accrue
    \/ Buy
    \/ TakeProfit
    \/ SkipProfit
    \/ RebalanceUp
    \/ RebalanceDown
    \/ Emit
    \/ Return

Spec == Init /\ [][Next]_vars

(***************************************************************************)
(* run_simulation() as one function of its inputs: the same steps folded   *)
(* over the price list.  An exception leaves no returned history.          *)
(***************************************************************************)
Params ==
    [prices |-> prices, capital_inicial |-> capital_inicial,
     cash_yield |-> cash_yield, trigger_caida |-> trigger_caida,
     multiplicador |-> multiplicador, usa_profit_take |-> usa_profit_take,
     pnl_target |-> pnl_target, ratio_equity |-> ratio_equity]

\* lines 52-90: one loop iteration on portfolio pf at 0-based index k
Period(par, pf, k) ==
    LET price == R(par.prices[k + 1])
        base == RDiv(R(par.capital_inicial), R(Len(par.prices)))
        ret == MonthlyRet(par.prices, k)
        accrued == [pf EXCEPT
                      !.current_cash = AccrueCash(@, par.cash_yield)]
        bought == DCABuy(accrued, price,
                         BuyAmount(base, par.multiplicador, ret,
                                   par.trigger_caida))
        taken == IF bought.ok
                 THEN ProfitTake(bought, price, par.usa_profit_take,
                                 par.pnl_target)
                 ELSE bought
    IN IF taken.ok THEN Rebalance(taken, price, par.ratio_equity) ELSE taken

RECURSIVE Loop(_, _, _, _)
\* lines 50-100
Loop(par, pf, k, hist) ==
    IF k = Len(par.prices) THEN hist
    ELSE LET after == Period(par, pf, k) IN
         IF ~after.ok THEN <<>>
         ELSE Loop(par, after, k + 1,
                   Append(hist,
                          Snapshot(k, par.prices[k + 1], after,
                                   MonthlyRet(par.prices, k),
                                   par.trigger_caida)))

\* lines 42-100
RunSimulation(par) ==
    IF Len(par.prices) = 0 THEN <<>>
    ELSE Loop(par, Portfolio(R(par.capital_inicial), Zero, Zero), 0, <<>>)

(***************************************************************************)
(* The declared input domains.                                             *)
(***************************************************************************)
ValidSeries ==
    /\ Len(prices) >= 2
    /\ \A k \in 1..Len(prices) : prices[k] > 0

ValidParameters ==
    /\ capital_inicial > 0
    /\ RLe(Zero, cash_yield)
    /\ RLe(Zero, ratio_equity) /\ RLe(ratio_equity, One)
    /\ RLt(Zero, trigger_caida)
    /\ RLt(Zero, pnl_target)
    /\ multiplicador >= 1

\* positive prices and parameters in their domains
InDomain ==
    /\ ValidParameters
    /\ \A k \in 1..Len(prices) : prices[k] > 0

(***************************************************************************)
(* Properties.                                                             *)
(***************************************************************************)
Snapshots == 1..Len(history)

\* the period of run_simulation just recorded: its snapshot is the last one
\* and the portfolio has not been touched since
JustEmitted == pc \in {"loop", "done"} /\ Len(history) > 0

\* C1: in every emitted snapshot total_value = cash + equity_value, where
\* equity_value is shares x price of that period and cash and shares are the
\* portfolio at the end of the period (after rebalancing).
C1_TotalIsCashPlusEquity ==
    InDomain =>
        /\ \A k \in Snapshots :
              history[k].Total = RAdd(history[k].Efectivo, history[k].Acciones)
        /\ JustEmitted =>
              LET last == history[Len(history)] IN
              /\ last.Efectivo = current_cash
              /\ last.Acciones = RMul(shares, R(prices[Len(history)]))

C1_Witness ==
    /\ InDomain
    /\ pc = "done"
    /\ Len(history) = 3
    /\ RLt(Zero, history[3].Efectivo)
    /\ RLt(Zero, history[3].Acciones)
    /\ history[3].Precio # 1

\* C2: with parameters in their domains cash is never negative, after every
\* period and after every step inside a period.
C2_CashNeverNegative == InDomain => RLe(Zero, current_cash)

\* the DCA buy was capped at the cash available: the triggered buy of
\* 2 or 3 times the base amount met less cash than that and emptied it
C2_Witness ==
    /\ InDomain
    /\ pc = "profit"
    /\ branch = "dca_buy"
    /\ i >= 1
    /\ TriggerActive(monthly_ret, trigger_caida)
    /\ ratio_equity = <<1, 2>>
    /\ current_cash = Zero

\* C3: with profit taking disabled, after the rebalancing step of every
\* period equity_value = equity_ratio x total_value and
\* cash = (1 - equity_ratio) x total_value.
C3_RebalanceConvergence ==
    (InDomain /\ ~usa_profit_take /\ pc = "emit") =>
        LET equity_val == RMul(shares, Price)
            total_val == RAdd(current_cash, equity_val)
        IN /\ equity_val = RMul(ratio_equity, total_val)
           /\ current_cash = RMul(RSub(One, ratio_equity), total_val)

C3_Witness ==
    /\ InDomain
    /\ ~usa_profit_take
    /\ pc = "emit"
    /\ branch = "rebalance_sell"
    /\ i >= 1
    /\ ratio_equity = <<1, 2>>
    /\ RLt(Zero, current_cash)
    /\ Price # One

\* what C4 says of every state: snapshot k carries the k-th timestamp and
\* price, one snapshot per processed observation, all of them at the return
C4_InOrder ==
    /\ Len(history) <= Len(prices)
    /\ pc \in {"loop", "done"} => Len(history) = i
    /\ \A k \in Snapshots :
          history[k].Fecha = k - 1 /\ history[k].Precio = prices[k]
    /\ pc = "done" => Len(history) = Len(prices)

\* steps run_simulation still has to take before it returns
StepsLeft ==
    LET periods == Len(prices) - i IN
    CASE pc = "start" -> 6 * Len(prices) + 2
      [] pc = "loop" -> 6 * periods + 1
      [] pc = "buy" -> 6 * periods
      [] pc = "profit" -> 6 * periods - 1
      [] pc = "rebalance" -> 6 * periods - 2
      [] pc = "emit" -> 6 * periods - 3
      [] OTHER -> 0

\* the positions from which run_simulation has a next step: the guards of
\* the actions (TakeProfit or SkipProfit at "profit", RebalanceUp or
\* RebalanceDown at "rebalance", Accrue or Return at "loop")
Running ==
    \/ pc \in {"start", "buy", "profit", "rebalance", "emit"}
    \/ pc = "loop" /\ i <= Len(prices)

\* C4: exactly one snapshot per price observation, in the order of the
\* observations, and the run ends after the last observation is processed:
\* until it has returned there is a next step, and every step brings the
\* return nearer.
C4_OneSnapshotPerObservation ==
    /\ [](C4_InOrder /\ StepsLeft >= 0)
    /\ []((Len(prices) > 0) => (pc = "done" \/ Running))
    /\ [][StepsLeft' < StepsLeft]_vars

C4_Witness ==
    /\ pc = "done"
    /\ Len(history) = 3
    /\ history[1].Precio = 4 /\ history[2].Precio = 1 /\ history[3].Precio = 2

\* (p_k - p_{k-1}) / p_{k-1} <= -drop_trigger, over the integers
DeclineReaches(prev, cur, trigger) ==
    (cur - prev) * trigger[2] <= -(trigger[1] * prev)

\* C5: trigger_active of snapshot k is true exactly when the decline from
\* the previous price reaches drop_trigger (equality included); it is false
\* in the first period.  [100, 94] at 5% fires, [100, 97] does not.
C5_TriggerDetection ==
    (RLt(Zero, trigger_caida) /\ \A k \in 1..Len(prices) : prices[k] > 0) =>
        /\ \A k \in Snapshots :
              history[k].Trigger =
                 (k >= 2 /\ DeclineReaches(prices[k - 1], prices[k],
                                           trigger_caida))
        /\ (Len(history) = 2 /\ trigger_caida = <<1, 20>>) =>
              /\ prices = <<100, 94>> => history[2].Trigger
              /\ prices = <<100, 95>> => history[2].Trigger
              /\ prices = <<100, 97>> => ~history[2].Trigger

C5_Witness ==
    /\ prices = <<100, 95>>
    /\ trigger_caida = <<1, 20>>
    /\ Len(history) = 2
    /\ ~history[1].Trigger
    /\ history[2].Trigger

RECURSIVE RPow(_, _)
RPow(a, n) == IF n = 0 THEN One ELSE RMul(a, RPow(a, n - 1))

\* C6: with drop_trigger = 100%, profit taking off and equity_ratio = 0 the
\* snapshot of period k (0-based) has equity_value = 0 and
\* total_value = cash = initial_capital x (1 + annual_cash_yield/12)^(k+1).
C6_PureCashAccrual ==
    (InDomain /\ trigger_caida = One /\ ~usa_profit_take
              /\ ratio_equity = Zero) =>
        \A k \in Snapshots :
           LET compounded ==
                  RMul(R(capital_inicial),
                       RPow(RAdd(One, RDiv(cash_yield, R(12))), k))
           IN /\ history[k].Acciones = Zero
              /\ history[k].Efectivo = compounded
              /\ history[k].Total = compounded

C6_Witness ==
    /\ InDomain /\ trigger_caida = One /\ ~usa_profit_take
    /\ ratio_equity = Zero
    /\ cash_yield = R(12)
    /\ Len(history) = 3
    /\ history[3].Total = R(96)

\* C7: over a non-empty list of positive prices no division by zero is
\* evaluated (no step raises), equity_ratio = 0 included; a rebalancing sale
\* that meets shares = 0 reduces the basis by 0.
C7_NoDivisionByZero ==
    (Len(prices) > 0) =>
        /\ pc # "fault"
        /\ (pc = "rebalance" /\ shares = Zero) =>
              \A sold \in {Zero, One} : BasisReduction(Current, sold) = Zero

\* equity_ratio = 0: the rebalancing sale of a later period sold every share
C7_Witness ==
    /\ InDomain
    /\ ratio_equity = Zero
    /\ usa_profit_take
    /\ i >= 1
    /\ pc = "emit"
    /\ branch = "rebalance_sell"
    /\ shares = Zero
    /\ RLt(Zero, current_cash)

\* C8: invalid input (fewer than 2 observations, a parameter outside its
\* domain) is rejected before the loop: no period transition is executed
\* and no snapshot is emitted.
C8_InvalidInputRejected ==
    ~(ValidSeries /\ ValidParameters) =>
        /\ pc \in {"start", "fault"} \/ (pc = "loop" /\ i = 0)
        /\ history = <<>>

\* buy/sell rules that never act: trigger out of reach, no profit taking
PlainRules ==
    [trigger_caida |-> One, multiplicador |-> 2,
     usa_profit_take |-> FALSE, pnl_target |-> One]

\* the run's inputs with the rule parameters replaced by rule
WithRules(rule) ==
    [Params EXCEPT !.trigger_caida = rule.trigger_caida,
                   !.multiplicador = rule.multiplicador,
                   !.usa_profit_take = rule.usa_profit_take,
                   !.pnl_target = rule.pnl_target]

SameValues(h1, h2) ==
    /\ Len(h1) = Len(h2)
    /\ \A k \in 1..Len(h1) :
          /\ h1[k].Total = h2[k].Total
          /\ h1[k].Efectivo = h2[k].Efectivo
          /\ h1[k].Acciones = h2[k].Acciones

\* C9: the emitted total_value, cash and equity_value do not depend on
\* drop_trigger, drop_multiplier, profit_take_enabled, profit_take_target:
\* every run emits, period by period, the values of the run over the same
\* price series, initial_capital, annual_cash_yield and equity_ratio whose
\* rules never act; so any two runs that differ in the rules alone agree.
C9_RulesDoNotChangeValues ==
    (InDomain /\ pc = "done") =>
        SameValues(history, RunSimulation(WithRules(PlainRules)))

\* this run bought at the trigger multiple in its second period and sold a
\* profit in its third, and ends with another basis than the plain run
C9_Witness ==
    /\ InDomain
    /\ pc = "done"
    /\ Len(history) = 3
    /\ usa_profit_take
    /\ multiplicador = 3
    /\ history[2].Trigger
    /\ ~history[3].Trigger
    /\ prices[3] > prices[2]
    /\ ratio_equity = <<1, 2>>
    /\ LET plain == WithRules(PlainRules)
           start == Portfolio(R(capital_inicial), Zero, Zero)
           end == Period(plain, Period(plain, Period(plain, start, 0), 1), 2)
       IN /\ end.invested_basis # invested_basis
          /\ end.current_cash = current_cash
          /\ end.shares = shares

\* a sale that leaves shares: the profit-taking sale or the rebalancing sale
SaleStep ==
    /\ pc \in {"profit", "rebalance"}
    /\ branch' \in {"profit_sale", "rebalance_sell"}
    /\ RLt(Zero, shares')

\* C10: a sale that leaves shares keeps the average cost per share
\* invested_basis / shares; a profit-taking sale so keeps the gain ratio
\* equity_value / invested_basis - 1 at the period price; with parameters
\* in their domains shares and invested_basis stay >= 0.
C10_SalePreservesAverageCost ==
    [][SaleStep =>
          /\ RLt(Zero, shares)
          /\ RDiv(invested_basis', shares') = RDiv(invested_basis, shares)
          /\ branch' = "profit_sale" =>
                /\ RLt(Zero, invested_basis')
                /\ RDiv(RMul(shares', Price), invested_basis')
                      = RDiv(RMul(shares, Price), invested_basis)
          /\ InDomain =>
                RLe(Zero, shares') /\ RLe(Zero, invested_basis')]_vars

\* a profit-taking sale was made and left shares
C10_Witness ==
    /\ InDomain
    /\ pc = "rebalance"
    /\ branch = "profit_sale"
    /\ RLt(Zero, shares)
    /\ RLt(Zero, invested_basis)
    /\ RLt(Zero, current_cash)

====
